---- MODULE Spec2Model ----
(***************************************************************************)
(* Viterbi decoder of github.com/LdDl/viterbi (src/viterbi.go).            *)
(*                                                                         *)
(* A State / Observation value (an interface value used as a map key) is   *)
(* a string.  A float64 is an integer in fixed point: in linear mode the   *)
(* probability 1.0 is the integer One, so a product of n table values is   *)
(* an integer over One^n (all scores of one trellis layer have the same n, *)
(* so they compare as the integers do); in log mode a value is an integer  *)
(* and math.Inf(-1) is the integer NegInf, which is below every sum the    *)
(* model forms.  Rounding, underflow and overflow of float64 are not       *)
(* modelled.                                                               *)
(***************************************************************************)
EXTENDS Integers, Sequences, FiniteSets, TLC

VARIABLES states, observations, startProbabilities, emissionProbabilities,
          transitionProbabilities, nilMaps, ret, calls

\* nilMaps: the three maps of the Viterbi value are nil (the value was
\* declared, not made by New); a nil map reads as a map with no entry
\* ret: what the last call made by the caller returned
\* calls: the decode calls that run as goroutines, each with its own locals

tables == <<startProbabilities, emissionProbabilities, transitionProbabilities>>
model == <<states, observations, startProbabilities, emissionProbabilities,
           transitionProbabilities, nilMaps>>
vars == <<states, observations, startProbabilities, emissionProbabilities,
          transitionProbabilities, nilMaps, ret, calls>>

\* ---------------------------------------------------------------- values

\* probability 1.0 of linear mode in fixed point (the bound of "startProb > 1")
One == 10
\* math.Inf(-1)
NegInf == -2000000000
\* the nil State (zero value of ViterbiVal.prev and of "var tmpState State")
NilState == "nil"

\* a Go map with no entry
EmptyMap == [k \in {} |-> 0]

\* MapPut that keeps the value of a key that has one (set if absent)
MapPutIfAbsent(m, k, val) ==
    [x \in (DOMAIN m) \cup {k} |-> IF x \in DOMAIN m THEN m[x] ELSE val]

\* m[k] = val on a Go map
MapPut(m, k, val) == [x \in (DOMAIN m) \cup {k} |-> IF x = k THEN val ELSE m[x]]

Range(seq) == {seq[i] : i \in 1..Len(seq)}

\* Lookup with ok ignored: a key with no entry reads as the value 0.0
LookupZero(m, k) == [val |-> IF k \in DOMAIN m THEN m[k] ELSE 0, ok |-> TRUE]

\* "val, ok := m[k]" on a Go map of float64: the zero value 0.0 and false
\* for a key that has no entry
Lookup(m, k) == IF k \in DOMAIN m THEN [val |-> m[k], ok |-> TRUE]
                ELSE [val |-> 0, ok |-> FALSE]

\* the receiver of a decode call: the Viterbi struct
Viterbi(st, obs, sp, ep, tp) ==
    [states |-> st, observations |-> obs, startProbabilities |-> sp,
     emissionProbabilities |-> ep, transitionProbabilities |-> tp]

self == Viterbi(states, observations, startProbabilities, emissionProbabilities,
                transitionProbabilities)

\* ViterbiPath{} with the error of the call; at is the time index PathBroken
\* and the internal error carry
Return(op, err, at, prob, path) ==
    [op |-> op, err |-> err, at |-> at, Probability |-> prob, Path |-> path]

\* Failure with the error dropped: ViterbiPath{} and a nil error
FailureNil(op, err, at) == Return(op, "nil", 0, 0, <<>>)

Failure(op, err, at) == Return(op, err, at, 0, <<>>)

\* no call has returned yet, or the last call was a builder call (no result)
NoReturn == Return("none", "nil", 0, 0, <<>>)

\* the run-time panic of an assignment to an entry of a nil map, raised in
\* the builder call op
PanicNilMap == "panic: assignment to entry in nil map"
Panic(op) == Return(op, PanicNilMap, 0, 0, <<>>)

\* ------------------------------------------------------- EvalPath (linear)

\* InvalidLinear with the bounds rejected as well
InvalidLinearStrict(x) == x <= 0 \/ x >= One

\* the range check of linear mode: "x < 0 || x > 1"
InvalidLinear(x) == x < 0 \/ x > One

\* the score of a state of the first layer
InitScoreLinear(startProb, emissionProb) == startProb * emissionProb

\* the score of reaching a state through the predecessor r
ChainLinear(vTransition, prob) == vTransition * prob

\* StepScoreLinear with the emission factor left out
StepScoreLinearNoEmission(maxTransitionProbability, emissionProb) ==
    maxTransitionProbability

\* the score stored for a state of layer t
StepScoreLinear(maxTransitionProbability, emissionProb) ==
    maxTransitionProbability * emissionProb

\* the loop over v.states that fills V[0]; i is the loop index (1-based),
\* V0 the layer built so far, n is validInitStates
RECURSIVE InitLinear(_, _, _, _)
InitLinear(v, i, V0, n) ==
    IF i > Len(v.states) THEN [err |-> "nil", layer |-> V0, validInitStates |-> n]
    ELSE LET st == v.states[i] IN
         LET start == Lookup(v.startProbabilities, st)
             startProb == start.val
             emission == Lookup(v.emissionProbabilities, <<st, v.observations[1]>>)
             emissionProb == emission.val
         IN   IF ~start.ok THEN InitLinear(v, i + 1, V0, n)
              ELSE IF InvalidLinear(startProb)
              THEN [err |-> "ErrInvalidProbability", layer |-> V0, validInitStates |-> n]
              ELSE IF ~emission.ok THEN InitLinear(v, i + 1, V0, n)
              ELSE IF InvalidLinear(emissionProb)
              THEN [err |-> "ErrInvalidProbability", layer |-> V0, validInitStates |-> n]
                   ELSE InitLinear(v, i + 1,
                                   MapPut(V0, st, [prob |-> InitScoreLinear(startProb, emissionProb),
                                                   prev |-> NilState]),
                                   n + 1)

\* BetterLinear with the comparison dropped: the last candidate scanned wins
BetterLinearLast(found, transitionProbability, maxTransitionProbability) == TRUE

\* BetterLinear with ">=" for ">": of the candidates with the greatest score
\* the last one scanned wins
BetterLinearTieLast(found, transitionProbability, maxTransitionProbability) ==
    ~found \/ transitionProbability >= maxTransitionProbability

\* BetterLinear with the comparison of the scores dropped: the first
\* candidate scanned is kept
BetterLinearFirst(found, transitionProbability, maxTransitionProbability) == ~found

\* the update of the running maximum in the predecessor scan
BetterLinear(found, transitionProbability, maxTransitionProbability) ==
    ~found \/ transitionProbability > maxTransitionProbability

\* ScanLinear with the ok of "stateProb, ok := V[t-1][r]" ignored: a
\* predecessor absent from V[t-1] is a candidate with the zero score
RECURSIVE ScanLinearIgnoreOk(_, _, _, _, _, _, _)
ScanLinearIgnoreOk(v, Vprev, s, i, maxTransitionProbability, tmpState, found) ==
    IF i > Len(v.states)
    THEN [err |-> "nil", max |-> maxTransitionProbability, tmpState |-> tmpState,
          found |-> found]
    ELSE LET r == v.states[i] IN
         LET transition == Lookup(v.transitionProbabilities, <<r, s>>)
             vTransition == transition.val
             stateProb == IF r \in DOMAIN Vprev THEN Vprev[r].prob ELSE 0
         IN   IF ~transition.ok
              THEN ScanLinearIgnoreOk(v, Vprev, s, i + 1, maxTransitionProbability,
                                      tmpState, found)
              ELSE IF InvalidLinear(vTransition)
              THEN [err |-> "ErrInvalidProbability", max |-> maxTransitionProbability,
                    tmpState |-> tmpState, found |-> found]
              ELSE LET transitionProbability == ChainLinear(vTransition, stateProb) IN
                   IF BetterLinear(found, transitionProbability, maxTransitionProbability)
                   THEN ScanLinearIgnoreOk(v, Vprev, s, i + 1, transitionProbability, r,
                                           TRUE)
                   ELSE ScanLinearIgnoreOk(v, Vprev, s, i + 1, maxTransitionProbability,
                                           tmpState, found)

\* the inner loop over v.states (predecessors r of s); Vprev is V[t-1]
RECURSIVE ScanLinear(_, _, _, _, _, _, _)
ScanLinear(v, Vprev, s, i, maxTransitionProbability, tmpState, found) ==
    IF i > Len(v.states)
    THEN [err |-> "nil", max |-> maxTransitionProbability, tmpState |-> tmpState,
          found |-> found]
    ELSE LET r == v.states[i] IN
         LET transition == Lookup(v.transitionProbabilities, <<r, s>>)
             vTransition == transition.val
         IN   IF ~transition.ok
              THEN ScanLinear(v, Vprev, s, i + 1, maxTransitionProbability, tmpState, found)
              ELSE IF InvalidLinear(vTransition)
              THEN [err |-> "ErrInvalidProbability", max |-> maxTransitionProbability,
                    tmpState |-> tmpState, found |-> found]
              ELSE IF r \notin DOMAIN Vprev
              THEN ScanLinear(v, Vprev, s, i + 1, maxTransitionProbability, tmpState,
                              found)
              ELSE LET transitionProbability == ChainLinear(vTransition, Vprev[r].prob) IN
                   IF BetterLinear(found, transitionProbability, maxTransitionProbability)
                   THEN ScanLinear(v, Vprev, s, i + 1, transitionProbability, r, TRUE)
                   ELSE ScanLinear(v, Vprev, s, i + 1, maxTransitionProbability,
                                   tmpState, found)

\* LayerLinear that records the state itself as its predecessor, not the
\* state the scan kept in tmpState
RECURSIVE LayerLinearPrevSelf(_, _, _, _, _)
LayerLinearPrevSelf(v, t, Vprev, i, Vt) ==
    IF i > Len(v.states) THEN [err |-> "nil", layer |-> Vt]
    ELSE LET s == v.states[i] IN
         LET emission == Lookup(v.emissionProbabilities, <<s, v.observations[t + 1]>>)
             emissionProb == emission.val
         IN   IF ~emission.ok THEN LayerLinearPrevSelf(v, t, Vprev, i + 1, Vt)
              ELSE IF InvalidLinear(emissionProb)
              THEN [err |-> "ErrInvalidProbability", layer |-> Vt]
              ELSE LET scan == ScanLinear(v, Vprev, s, 1, 0, NilState, FALSE) IN
                   IF scan.err # "nil" THEN [err |-> scan.err, layer |-> Vt]
                   ELSE IF ~scan.found THEN LayerLinearPrevSelf(v, t, Vprev, i + 1, Vt)
                   ELSE LayerLinearPrevSelf(v, t, Vprev, i + 1,
                                    MapPut(Vt, s, [prob |-> StepScoreLinear(scan.max, emissionProb),
                                                   prev |-> s]))

\* the loop over v.states that fills V[t]; t is the Go index (0-based) of the
\* observation, Vt the layer built so far
RECURSIVE LayerLinear(_, _, _, _, _)
LayerLinear(v, t, Vprev, i, Vt) ==
    IF i > Len(v.states) THEN [err |-> "nil", layer |-> Vt]
    ELSE LET s == v.states[i] IN
         LET emission == Lookup(v.emissionProbabilities, <<s, v.observations[t + 1]>>)
             emissionProb == emission.val
         IN   IF ~emission.ok THEN LayerLinear(v, t, Vprev, i + 1, Vt)
              ELSE IF InvalidLinear(emissionProb)
              THEN [err |-> "ErrInvalidProbability", layer |-> Vt]
              ELSE LET scan == ScanLinear(v, Vprev, s, 1, 0, NilState, FALSE) IN
                   IF scan.err # "nil" THEN [err |-> scan.err, layer |-> Vt]
                   ELSE IF ~scan.found THEN LayerLinear(v, t, Vprev, i + 1, Vt)
                   ELSE LayerLinear(v, t, Vprev, i + 1,
                                    MapPut(Vt, s, [prob |-> StepScoreLinear(scan.max, emissionProb),
                                                   prev |-> scan.tmpState]))

\* ForwardLinear without the test of len(V[t]): an empty layer is kept and
\* the loop goes on
RECURSIVE ForwardLinearNoBreak(_, _, _)
ForwardLinearNoBreak(v, t, V) ==
    IF t >= Len(v.observations) THEN [err |-> "nil", at |-> 0, V |-> V]
    ELSE LET layer == LayerLinear(v, t, V[t], 1, EmptyMap) IN
         IF layer.err # "nil" THEN [err |-> layer.err, at |-> 0, V |-> V]
         ELSE ForwardLinearNoBreak(v, t + 1, Append(V, layer.layer))

\* the loop "for t := 1; t < len(v.observations); t++"; V is the trellis
\* built so far (V[k] of the model is V[k-1] of the code)
RECURSIVE ForwardLinear(_, _, _)
ForwardLinear(v, t, V) ==
    IF t >= Len(v.observations) THEN [err |-> "nil", at |-> 0, V |-> V]
    ELSE LET layer == LayerLinear(v, t, V[t], 1, EmptyMap) IN
         IF layer.err # "nil" THEN [err |-> layer.err, at |-> 0, V |-> V]
         ELSE IF DOMAIN layer.layer = {} THEN [err |-> "ErrPathBroken", at |-> t, V |-> V]
         ELSE ForwardLinear(v, t + 1, Append(V, layer.layer))

\* TrellisLinear with the two edge cases tested in the other order
TrellisLinearStatesFirst(v) ==
    IF Len(v.states) = 0 THEN [err |-> "ErrNoStates", at |-> 0, V |-> <<>>]
    ELSE IF Len(v.observations) = 0
    THEN [err |-> "ErrNoObservations", at |-> 0, V |-> <<>>]
    ELSE LET init == InitLinear(v, 1, EmptyMap, 0) IN
         IF init.err # "nil" THEN [err |-> init.err, at |-> 0, V |-> <<>>]
         ELSE IF init.validInitStates = 0
         THEN [err |-> "ErrNoValidInitStates", at |-> 0, V |-> <<>>]
         ELSE ForwardLinear(v, 1, <<init.layer>>)

\* TrellisLinear without the test of validInitStates
TrellisLinearNoInitCheck(v) ==
    IF Len(v.observations) = 0 THEN [err |-> "ErrNoObservations", at |-> 0, V |-> <<>>]
    ELSE IF Len(v.states) = 0 THEN [err |-> "ErrNoStates", at |-> 0, V |-> <<>>]
    ELSE LET init == InitLinear(v, 1, EmptyMap, 0) IN
         IF init.err # "nil" THEN [err |-> init.err, at |-> 0, V |-> <<>>]
         ELSE ForwardLinear(v, 1, <<init.layer>>)

\* the trellis of EvalPath: the edge cases, the first time step and the
\* forward pass
TrellisLinear(v) ==
    IF Len(v.observations) = 0 THEN [err |-> "ErrNoObservations", at |-> 0, V |-> <<>>]
    ELSE IF Len(v.states) = 0 THEN [err |-> "ErrNoStates", at |-> 0, V |-> <<>>]
    ELSE LET init == InitLinear(v, 1, EmptyMap, 0) IN
         IF init.err # "nil" THEN [err |-> init.err, at |-> 0, V |-> <<>>]
         ELSE IF init.validInitStates = 0
         THEN [err |-> "ErrNoValidInitStates", at |-> 0, V |-> <<>>]
         ELSE ForwardLinear(v, 1, <<init.layer>>)

\* ------------------------------------------ terminus and backtracking

\* "for _, value := range V[len(V)-1] { if value.prob > maxPr { maxPr = value.prob } }"
\* started from maxPr0: the greatest of maxPr0 and the scores of the layer
MaxPr(last, maxPr0) ==
    LET probs == {last[st].prob : st \in DOMAIN last} \cup {maxPr0}
    IN  CHOOSE m \in probs : \A p \in probs : p <= m

\* FinalStates with the test of the score left out: the first entry of the
\* map iteration is taken
FinalStatesAny(last, maxPr) == DOMAIN last

\* FinalStates that leaves out a state whose score is 0
FinalStatesPositive(last, maxPr) ==
    {st \in DOMAIN last : last[st].prob = maxPr /\ last[st].prob > 0}

\* the states the second loop over the map V[len(V)-1] can stop at: it
\* breaks at the first entry whose score is maxPr, and the iteration order of
\* a Go map is not specified, so every such entry can be the first
FinalStates(last, maxPr) == {st \in DOMAIN last : last[st].prob = maxPr}

\* Backtrack with the walk left out: the path is the terminus alone
BacktrackNoWalk(V, t, previous, opt) == [err |-> "nil", at |-> 0, opt |-> opt]

\* the backward loop "for t := len(V) - 2; t >= 0; t--"; t is the Go index
RECURSIVE Backtrack(_, _, _, _)
Backtrack(V, t, previous, opt) ==
    IF t < 0 THEN [err |-> "nil", at |-> 0, opt |-> opt]
    ELSE IF previous \in DOMAIN V[t + 2]
         THEN Backtrack(V, t - 1, V[t + 2][previous].prev,
                        <<V[t + 2][previous].prev>> \o opt)
         ELSE [err |-> "ErrInternal", at |-> t + 1, opt |-> opt]

\* what a decode can return for the trellis result tr: the error of the
\* forward pass, or the selection of the terminus and the backward walk
Finish(op, tr, maxPr0) ==
    IF tr.err # "nil" THEN {Failure(op, tr.err, tr.at)}
    ELSE LET last == tr.V[Len(tr.V)] IN
         IF DOMAIN last = {} THEN {Failure(op, "ErrNoValidPath", 0)}
         ELSE LET maxPr == MaxPr(last, maxPr0) IN
              IF FinalStates(last, maxPr) = {} THEN {Failure(op, "ErrNoValidPath", 0)}
              ELSE {LET back == Backtrack(tr.V, Len(tr.V) - 2, st, <<st>>) IN
                    IF back.err # "nil" THEN Failure(op, back.err, back.at)
                    ELSE Return(op, "nil", 0, maxPr, back.opt)
                    : st \in FinalStates(last, maxPr)}

\* every (ViterbiPath, error) a call of v.EvalPath() can return
EvalPathOutcomes(v) == Finish("EvalPath", TrellisLinear(v), 0)

\* ------------------------------------- EvalPathLogProbabilities (log mode)

\* the range check of log mode: "x > 0"
InvalidLog(x) == x > 0

\* IsNegInf that never holds: no value is skipped
IsNegInfNever(x) == FALSE

\* math.IsInf(x, -1)
IsNegInf(x) == x = NegInf

\* x + y on float64 values of log mode: negative infinity plus a value that
\* is not positive is negative infinity
FloatAdd(x, y) == IF x = NegInf \/ y = NegInf THEN NegInf ELSE x + y

InitScoreLog(startProb, emissionProb) == FloatAdd(startProb, emissionProb)

\* ChainLog with the transition left out of the sum
ChainLogNoTransition(vTransition, prob) == prob

ChainLog(vTransition, prob) == FloatAdd(vTransition, prob)

StepScoreLog(maxTransitionProbability, emissionProb) ==
    FloatAdd(maxTransitionProbability, emissionProb)

RECURSIVE InitLog(_, _, _, _)
InitLog(v, i, V0, n) ==
    IF i > Len(v.states) THEN [err |-> "nil", layer |-> V0, validInitStates |-> n]
    ELSE LET st == v.states[i] IN
         LET start == Lookup(v.startProbabilities, st)
             startProb == start.val
             emission == Lookup(v.emissionProbabilities, <<st, v.observations[1]>>)
             emissionProb == emission.val
         IN   IF ~start.ok THEN InitLog(v, i + 1, V0, n)
              ELSE IF InvalidLog(startProb)
              THEN [err |-> "ErrInvalidProbability", layer |-> V0, validInitStates |-> n]
              ELSE IF ~emission.ok THEN InitLog(v, i + 1, V0, n)
              ELSE IF InvalidLog(emissionProb)
              THEN [err |-> "ErrInvalidProbability", layer |-> V0, validInitStates |-> n]
                   ELSE IF IsNegInf(startProb) \/ IsNegInf(emissionProb)
                   THEN InitLog(v, i + 1, V0, n)
                   ELSE InitLog(v, i + 1,
                                MapPut(V0, st, [prob |-> InitScoreLog(startProb, emissionProb),
                                                prev |-> NilState]),
                                n + 1)

\* BetterLog with the comparison dropped: the last candidate scanned wins
BetterLogLast(found, transitionProbability, maxTransitionProbability) == TRUE

\* the update of the running maximum in the predecessor scan
BetterLog(found, transitionProbability, maxTransitionProbability) ==
    ~found \/ transitionProbability > maxTransitionProbability

\* ScanLog that looks r up in V[t-1] before it validates the transition: the
\* transition out of a state absent from V[t-1] is not validated
RECURSIVE ScanLogPresentFirst(_, _, _, _, _, _, _)
ScanLogPresentFirst(v, Vprev, s, i, maxTransitionProbability, tmpState, found) ==
    IF i > Len(v.states)
    THEN [err |-> "nil", max |-> maxTransitionProbability, tmpState |-> tmpState,
          found |-> found]
    ELSE LET r == v.states[i] IN
         LET transition == Lookup(v.transitionProbabilities, <<r, s>>)
             vTransition == transition.val
         IN   IF ~transition.ok
              THEN ScanLogPresentFirst(v, Vprev, s, i + 1, maxTransitionProbability,
                                       tmpState, found)
              ELSE IF r \notin DOMAIN Vprev
              THEN ScanLogPresentFirst(v, Vprev, s, i + 1, maxTransitionProbability,
                                       tmpState, found)
              ELSE IF InvalidLog(vTransition)
              THEN [err |-> "ErrInvalidProbability", max |-> maxTransitionProbability,
                    tmpState |-> tmpState, found |-> found]
              ELSE IF IsNegInf(vTransition) \/ IsNegInf(Vprev[r].prob)
              THEN ScanLogPresentFirst(v, Vprev, s, i + 1, maxTransitionProbability,
                                       tmpState, found)
              ELSE LET transitionProbability == ChainLog(vTransition, Vprev[r].prob) IN
                   IF BetterLog(found, transitionProbability, maxTransitionProbability)
                   THEN ScanLogPresentFirst(v, Vprev, s, i + 1, transitionProbability, r,
                                            TRUE)
                   ELSE ScanLogPresentFirst(v, Vprev, s, i + 1, maxTransitionProbability,
                                            tmpState, found)

RECURSIVE ScanLog(_, _, _, _, _, _, _)
ScanLog(v, Vprev, s, i, maxTransitionProbability, tmpState, found) ==
    IF i > Len(v.states)
    THEN [err |-> "nil", max |-> maxTransitionProbability, tmpState |-> tmpState,
          found |-> found]
    ELSE LET r == v.states[i] IN
         LET transition == Lookup(v.transitionProbabilities, <<r, s>>)
             vTransition == transition.val
         IN   IF ~transition.ok
              THEN ScanLog(v, Vprev, s, i + 1, maxTransitionProbability, tmpState, found)
              ELSE IF InvalidLog(vTransition)
              THEN [err |-> "ErrInvalidProbability", max |-> maxTransitionProbability,
                    tmpState |-> tmpState, found |-> found]
              ELSE IF r \notin DOMAIN Vprev
              THEN ScanLog(v, Vprev, s, i + 1, maxTransitionProbability, tmpState, found)
              ELSE IF IsNegInf(vTransition) \/ IsNegInf(Vprev[r].prob)
              THEN ScanLog(v, Vprev, s, i + 1, maxTransitionProbability, tmpState, found)
              ELSE LET transitionProbability == ChainLog(vTransition, Vprev[r].prob) IN
                   IF BetterLog(found, transitionProbability, maxTransitionProbability)
                   THEN ScanLog(v, Vprev, s, i + 1, transitionProbability, r, TRUE)
                   ELSE ScanLog(v, Vprev, s, i + 1, maxTransitionProbability, tmpState,
                                found)

RECURSIVE LayerLog(_, _, _, _, _)
LayerLog(v, t, Vprev, i, Vt) ==
    IF i > Len(v.states) THEN [err |-> "nil", layer |-> Vt]
    ELSE LET s == v.states[i] IN
         LET emission == Lookup(v.emissionProbabilities, <<s, v.observations[t + 1]>>)
             emissionProb == emission.val
         IN   IF ~emission.ok THEN LayerLog(v, t, Vprev, i + 1, Vt)
              ELSE IF InvalidLog(emissionProb)
              THEN [err |-> "ErrInvalidProbability", layer |-> Vt]
              ELSE IF IsNegInf(emissionProb) THEN LayerLog(v, t, Vprev, i + 1, Vt)
              ELSE LET scan == ScanLog(v, Vprev, s, 1, NegInf, NilState, FALSE) IN
                   IF scan.err # "nil" THEN [err |-> scan.err, layer |-> Vt]
                   ELSE IF ~scan.found THEN LayerLog(v, t, Vprev, i + 1, Vt)
                   ELSE LayerLog(v, t, Vprev, i + 1,
                                 MapPut(Vt, s, [prob |-> StepScoreLog(scan.max, emissionProb),
                                                prev |-> scan.tmpState]))

\* ForwardLog that reports the last time step instead of the one that broke
RECURSIVE ForwardLogLastStep(_, _, _)
ForwardLogLastStep(v, t, V) ==
    IF t >= Len(v.observations) THEN [err |-> "nil", at |-> 0, V |-> V]
    ELSE LET layer == LayerLog(v, t, V[t], 1, EmptyMap) IN
         IF layer.err # "nil" THEN [err |-> layer.err, at |-> 0, V |-> V]
         ELSE IF DOMAIN layer.layer = {}
         THEN [err |-> "ErrPathBroken", at |-> Len(v.observations) - 1, V |-> V]
         ELSE ForwardLogLastStep(v, t + 1, Append(V, layer.layer))

RECURSIVE ForwardLog(_, _, _)
ForwardLog(v, t, V) ==
    IF t >= Len(v.observations) THEN [err |-> "nil", at |-> 0, V |-> V]
    ELSE LET layer == LayerLog(v, t, V[t], 1, EmptyMap) IN
         IF layer.err # "nil" THEN [err |-> layer.err, at |-> 0, V |-> V]
         ELSE IF DOMAIN layer.layer = {} THEN [err |-> "ErrPathBroken", at |-> t, V |-> V]
         ELSE ForwardLog(v, t + 1, Append(V, layer.layer))

\* TrellisLog without the test of validInitStates
TrellisLogNoInitCheck(v) ==
    IF Len(v.observations) = 0 THEN [err |-> "ErrNoObservations", at |-> 0, V |-> <<>>]
    ELSE IF Len(v.states) = 0 THEN [err |-> "ErrNoStates", at |-> 0, V |-> <<>>]
    ELSE LET init == InitLog(v, 1, EmptyMap, 0) IN
         IF init.err # "nil" THEN [err |-> init.err, at |-> 0, V |-> <<>>]
         ELSE ForwardLog(v, 1, <<init.layer>>)

TrellisLog(v) ==
    IF Len(v.observations) = 0 THEN [err |-> "ErrNoObservations", at |-> 0, V |-> <<>>]
    ELSE IF Len(v.states) = 0 THEN [err |-> "ErrNoStates", at |-> 0, V |-> <<>>]
    ELSE LET init == InitLog(v, 1, EmptyMap, 0) IN
         IF init.err # "nil" THEN [err |-> init.err, at |-> 0, V |-> <<>>]
         ELSE IF init.validInitStates = 0
         THEN [err |-> "ErrNoValidInitStates", at |-> 0, V |-> <<>>]
         ELSE ForwardLog(v, 1, <<init.layer>>)

\* every (ViterbiPath, error) a call of v.EvalPathLogProbabilities() can return
EvalPathLogProbabilitiesOutcomes(v) ==
    Finish("EvalPathLogProbabilities", TrellisLog(v), NegInf)

\* ------------------------------------------------------------ operations

\* New(): no states, no observations, three empty maps
New ==
    /\ states = <<>>
    /\ observations = <<>>
    /\ startProbabilities = EmptyMap
    /\ emissionProbabilities = EmptyMap
    /\ transitionProbabilities = EmptyMap
    /\ nilMaps = FALSE
    /\ ret = NoReturn

\* "var v Viterbi": nil slices and nil maps
ZeroValue ==
    /\ states = <<>>
    /\ observations = <<>>
    /\ startProbabilities = EmptyMap
    /\ emissionProbabilities = EmptyMap
    /\ transitionProbabilities = EmptyMap
    /\ nilMaps = TRUE
    /\ ret = NoReturn

\* append works on a nil slice as on an empty one
AddState(s) ==
    /\ states' = Append(states, s)
    /\ ret' = NoReturn
    /\ UNCHANGED <<observations, tables, nilMaps, calls>>

AddObservation(obs) ==
    /\ observations' = Append(observations, obs)
    /\ ret' = NoReturn
    /\ UNCHANGED <<states, tables, nilMaps, calls>>

\* PutStartProbability on a table keyed by ID(): the entry of a State value
\* with the same identity is replaced
PutStartProbabilityById(state, val) ==
    /\ startProbabilities' =
          [x \in {k \in DOMAIN startProbabilities : k.id # state.id} \cup {state} |->
              IF x = state THEN val ELSE startProbabilities[x]]
    /\ ret' = NoReturn
    /\ UNCHANGED <<states, observations, emissionProbabilities, transitionProbabilities,
                   nilMaps, calls>>

\* "v.startProbabilities[state] = val": the assignment panics on a nil map
PutStartProbability(state, val) ==
    /\ IF nilMaps
       THEN startProbabilities' = startProbabilities /\ ret' = Panic("PutStartProbability")
       ELSE startProbabilities' = MapPut(startProbabilities, state, val) /\ ret' = NoReturn
    /\ UNCHANGED <<states, observations, emissionProbabilities, transitionProbabilities,
                   nilMaps, calls>>

PutEmissionProbability(s, obs, val) ==
    /\ IF nilMaps
       THEN /\ emissionProbabilities' = emissionProbabilities
            /\ ret' = Panic("PutEmissionProbability")
       ELSE /\ emissionProbabilities' = MapPut(emissionProbabilities, <<s, obs>>, val)
            /\ ret' = NoReturn
    /\ UNCHANGED <<states, observations, startProbabilities, transitionProbabilities,
                   nilMaps, calls>>

PutTransitionProbability(f, t, val) ==
    /\ IF nilMaps
       THEN /\ transitionProbabilities' = transitionProbabilities
            /\ ret' = Panic("PutTransitionProbability")
       ELSE /\ transitionProbabilities' = MapPut(transitionProbabilities, <<f, t>>, val)
            /\ ret' = NoReturn
    /\ UNCHANGED <<states, observations, startProbabilities, emissionProbabilities,
                   nilMaps, calls>>

\* EvalPath whose lookup of a start probability stores the zero value for a
\* registered state that has none
EvalPathStoresZero ==
    /\ ret' \in EvalPathOutcomes(self)
    /\ startProbabilities' =
          [s \in DOMAIN startProbabilities \cup Range(states) |->
              IF s \in DOMAIN startProbabilities THEN startProbabilities[s] ELSE 0]
    /\ UNCHANGED <<states, observations, emissionProbabilities, transitionProbabilities,
                   nilMaps, calls>>

EvalPath ==
    /\ ret' \in EvalPathOutcomes(self)
    /\ UNCHANGED <<model, calls>>

EvalPathLogProbabilities ==
    /\ ret' \in EvalPathLogProbabilitiesOutcomes(self)
    /\ UNCHANGED <<model, calls>>

\* ------------------------------------------------------- the caller

\* the longest observation sequence and the most table entries a caller builds
MaxObs == 2
MaxEntries == 6

\* the State and Observation values a caller uses, in the order of their
\* first use
StateIds == <<"a", "b">>
ObsIds == <<"x", "y">>

\* the values of ids not yet in seq that a caller uses next
Fresh(ids, seq) ==
    {ids[i] : i \in {j \in 1..Len(ids) : j = Cardinality(Range(seq)) + 1}}

\* the values a caller stores: probabilities 0.5 and 1.0, or log-probabilities
LinearValues == {5, 10}
LogValues == {-2, -1}
Values == LinearValues \cup LogValues

Stored ==
    {startProbabilities[k] : k \in DOMAIN startProbabilities}
    \cup {emissionProbabilities[k] : k \in DOMAIN emissionProbabilities}
    \cup {transitionProbabilities[k] : k \in DOMAIN transitionProbabilities}

Entries ==
    Cardinality(DOMAIN startProbabilities) + Cardinality(DOMAIN emissionProbabilities)
    + Cardinality(DOMAIN transitionProbabilities)

\* a caller fills the tables of one model on one scale: the values it may
\* store next
Scale ==
    IF Stored \subseteq LinearValues /\ Stored \subseteq LogValues THEN Values
    ELSE IF Stored \subseteq LinearValues THEN LinearValues ELSE LogValues

\* a caller builds the model before it decodes (the setup phase of the
\* model's lifecycle)
Setup == ret = NoReturn

\* a caller replaces the value of an entry by another one, and adds entries up
\* to MaxEntries
MayPut(m, k, val) == IF k \in DOMAIN m THEN m[k] # val ELSE Entries < MaxEntries

\* the program starts with a model made by New and no goroutine
Init == New /\ calls = <<>>

Next ==
    \/ Setup /\ \E s \in Fresh(StateIds, states) : AddState(s)
    \/ /\ Setup
       /\ Len(observations) < MaxObs
       /\ \E obs \in Range(observations) \cup Fresh(ObsIds, observations) :
             AddObservation(obs)
    \/ /\ Setup
       /\ \E val \in Scale, s \in Range(states) :
             MayPut(startProbabilities, s, val) /\ PutStartProbability(s, val)
    \/ /\ Setup
       /\ \E val \in Scale, s \in Range(states), obs \in Range(observations) :
             /\ MayPut(emissionProbabilities, <<s, obs>>, val)
             /\ PutEmissionProbability(s, obs, val)
    \/ /\ Setup
       /\ \E val \in Scale, f \in Range(states), t \in Range(states) :
             /\ MayPut(transitionProbabilities, <<f, t>>, val)
             /\ PutTransitionProbability(f, t, val)
    \/ EvalPath
    \/ EvalPathLogProbabilities

Spec == Init /\ [][Next]_vars

\* ------------------------------ a caller that stores boundary values

\* the longest observation sequence and the most table entries of this caller
MaxEdgeObs == 3
MaxEdgeEntries == 4

\* this caller observes the same value at every time step
EdgeObsIds == <<"x">>

\* probabilities 0.0, 1.0 and 1.1; log-probabilities -Inf, -1 and 0
EdgeLinearValues == {0, One, One + 1}
EdgeLogValues == {NegInf, -1, 0}

\* the values this caller may store next: it fills the tables of one model
\* on one scale
EdgeScale ==
    IF Stored \subseteq EdgeLinearValues /\ Stored \subseteq EdgeLogValues
    THEN EdgeLinearValues \cup EdgeLogValues
    ELSE IF Stored \subseteq EdgeLinearValues THEN EdgeLinearValues ELSE EdgeLogValues

\* this caller adds entries up to MaxEdgeEntries
MayAdd(m, k) == k \notin DOMAIN m /\ Entries < MaxEdgeEntries

NextEdge ==
    \/ Setup /\ \E s \in Fresh(StateIds, states) : AddState(s)
    \/ /\ Setup
       /\ Len(observations) < MaxEdgeObs
       /\ \E obs \in Range(observations) \cup Fresh(EdgeObsIds, observations) :
             AddObservation(obs)
    \/ /\ Setup
       /\ \E val \in EdgeScale, s \in Range(states) :
             MayAdd(startProbabilities, s) /\ PutStartProbability(s, val)
    \/ /\ Setup
       /\ \E val \in EdgeScale, s \in Range(states), obs \in Range(observations) :
             /\ MayAdd(emissionProbabilities, <<s, obs>>)
             /\ PutEmissionProbability(s, obs, val)
    \/ /\ Setup
       /\ \E val \in EdgeScale, f \in Range(states), t \in Range(states) :
             /\ MayAdd(transitionProbabilities, <<f, t>>)
             /\ PutTransitionProbability(f, t, val)
    \/ EvalPath
    \/ EvalPathLogProbabilities

SpecEdge == Init /\ [][NextEdge]_vars

\* ------------------------- a caller that revises the values it has put

\* the value this caller puts for a key: 0.5 for a key that has no value,
\* and the other one of 0.5 and 1.0 for a key that has a value
Revised(m, k) == IF k \notin DOMAIN m THEN 5 ELSE IF m[k] = 5 THEN One ELSE 5

\* one state, up to MaxObs observations; the builder calls and the decode
\* come in any order, so a model is decoded, revised and decoded again
NextOverwrite ==
    \/ Len(states) = 0 /\ AddState(StateIds[1])
    \/ /\ Len(observations) < MaxObs
       /\ \E obs \in Range(observations) \cup Fresh(ObsIds, observations) :
             AddObservation(obs)
    \/ \E s \in Range(states) :
          PutStartProbability(s, Revised(startProbabilities, s))
    \/ \E s \in Range(states), obs \in Range(observations) :
          PutEmissionProbability(s, obs, Revised(emissionProbabilities, <<s, obs>>))
    \/ \E f \in Range(states), t \in Range(states) :
          PutTransitionProbability(f, t, Revised(transitionProbabilities, <<f, t>>))
    \/ EvalPath

SpecOverwrite == Init /\ [][NextOverwrite]_vars

\* ----------------- TestViterbiEvalPath with "var v Viterbi" (zero value)

\* a panic ends the program: the caller makes no call after it
Running == ret.err # PanicNilMap

InitZeroValue == ZeroValue /\ calls = <<>>

\* the caller of the zero value: the builder calls of a test, then the decode
NextZeroValue ==
    \/ Setup /\ \E s \in Fresh(StateIds, states) : AddState(s)
    \/ /\ Setup
       /\ Len(observations) < MaxEdgeObs
       /\ \E obs \in Range(observations) \cup Fresh(ObsIds, observations) :
             AddObservation(obs)
    \/ /\ Setup
       /\ \E val \in LinearValues, s \in Range(states) : PutStartProbability(s, val)
    \/ /\ Setup
       /\ \E val \in LinearValues, s \in Range(states), obs \in Range(observations) :
             PutEmissionProbability(s, obs, val)
    \/ /\ Setup
       /\ \E val \in LinearValues, f \in Range(states), t \in Range(states) :
             PutTransitionProbability(f, t, val)
    \/ Running /\ EvalPath
    \/ Running /\ EvalPathLogProbabilities

SpecZeroValue == InitZeroValue /\ [][NextZeroValue]_vars

\* ------------------------------------- TestViterbiEvalPath (weather)

\* the test names the first state "Healty"; the name is a label only, the
\* decode compares states for identity
WeatherStates == <<"Healthy", "Fever">>
WeatherObservations == <<"normal", "cold", "dizzy">>

\* start {0.6, 0.4}
WeatherStart == ("Healthy" :> 6) @@ ("Fever" :> 4)

\* emissions Healthy {0.5, 0.4, 0.1} and Fever {0.1, 0.3, 0.6}
WeatherEmission ==
    (<<"Healthy", "normal">> :> 5) @@ (<<"Healthy", "cold">> :> 4)
    @@ (<<"Healthy", "dizzy">> :> 1) @@ (<<"Fever", "normal">> :> 1)
    @@ (<<"Fever", "cold">> :> 3) @@ (<<"Fever", "dizzy">> :> 6)

\* transitions H->H 0.7, H->F 0.3, F->H 0.4, F->F 0.6
WeatherTransition ==
    (<<"Healthy", "Healthy">> :> 7) @@ (<<"Healthy", "Fever">> :> 3)
    @@ (<<"Fever", "Healthy">> :> 4) @@ (<<"Fever", "Fever">> :> 6)

\* the model the test has built when it decodes
WeatherModel ==
    Viterbi(WeatherStates, WeatherObservations, WeatherStart, WeatherEmission,
            WeatherTransition)

\* the test adds the states, then the observations, then fills the start, the
\* emission and the transition table (the entries of one table are
\* taken in any order here), and decodes; EvalPath is also run on the
\* model as built so far
NextWeather ==
    \/ Setup /\ \E s \in Fresh(WeatherStates, states) : AddState(s)
    \/ /\ Setup
       /\ states = WeatherStates
       /\ \E obs \in Fresh(WeatherObservations, observations) : AddObservation(obs)
    \/ /\ Setup
       /\ observations = WeatherObservations
       /\ \E s \in DOMAIN WeatherStart \ DOMAIN startProbabilities :
             PutStartProbability(s, WeatherStart[s])
    \/ /\ Setup
       /\ startProbabilities = WeatherStart
       /\ \E k \in DOMAIN WeatherEmission \ DOMAIN emissionProbabilities :
             PutEmissionProbability(k[1], k[2], WeatherEmission[k])
    \/ /\ Setup
       /\ emissionProbabilities = WeatherEmission
       /\ \E k \in DOMAIN WeatherTransition \ DOMAIN transitionProbabilities :
             PutTransitionProbability(k[1], k[2], WeatherTransition[k])
    \/ EvalPath

SpecWeather == Init /\ [][NextWeather]_vars

\* ------------------------------------ decode calls run as goroutines

\* the most decode calls that run at the same time
MaxGoroutines == 2

DecodeOps == {"EvalPath", "EvalPathLogProbabilities"}

\* the edge cases, "V = make([]map[State]ViterbiVal, len(v.observations))"
\* and the first time step of the decode op: V has one map per observation,
\* the first one filled
Begin(op, v) ==
    IF Len(v.observations) = 0 THEN [err |-> "ErrNoObservations", V |-> <<>>]
    ELSE IF Len(v.states) = 0 THEN [err |-> "ErrNoStates", V |-> <<>>]
    ELSE LET init == IF op = "EvalPath" THEN InitLinear(v, 1, EmptyMap, 0)
                     ELSE InitLog(v, 1, EmptyMap, 0)
             made == [k \in 1..Len(v.observations) |-> EmptyMap]
         IN  IF init.err # "nil" THEN [err |-> init.err, V |-> made]
             ELSE IF init.validInitStates = 0
             THEN [err |-> "ErrNoValidInitStates", V |-> made]
             ELSE [err |-> "nil", V |-> [made EXCEPT ![1] = init.layer]]

\* the trellis a call reads and writes, were V one variable shared by the
\* calls: the one of the call that was started first
TrellisShared(c, g) == c[CHOOSE h \in DOMAIN c : \A j \in DOMAIN c : h <= j].V

\* the trellis a call reads and writes: V is a local variable of the call
TrellisOf(c, g) == c[g].V

\* "go v.EvalPath()" / "go v.EvalPathLogProbabilities()": the call g starts
\* and runs up to the end of the first time step
Go(g, op) ==
    /\ g \notin DOMAIN calls
    /\ LET begin == Begin(op, self) IN
       calls' = [h \in DOMAIN calls \cup {g} |->
                    IF h # g THEN calls[h]
                    ELSE IF begin.err # "nil"
                    THEN [op |-> op, pc |-> "done", t |-> 0, V |-> begin.V,
                          result |-> Failure(op, begin.err, 0)]
                    ELSE [op |-> op, pc |-> "forward", t |-> 1, V |-> begin.V,
                          result |-> NoReturn]]
    /\ UNCHANGED <<model, ret>>

\* the call g runs one iteration of the loop over t, or leaves the loop
StepForward(g) ==
    /\ calls[g].pc = "forward"
    /\ LET op == calls[g].op
           t == calls[g].t
           V == TrellisOf(calls, g)
       IN  IF t >= Len(observations)
           THEN calls' = [calls EXCEPT ![g] = [@ EXCEPT !.pc = "finish"]]
           ELSE LET layer == IF op = "EvalPath" THEN LayerLinear(self, t, V[t], 1, EmptyMap)
                             ELSE LayerLog(self, t, V[t], 1, EmptyMap)
                IN  calls' = [calls EXCEPT ![g] =
                       IF layer.err # "nil"
                       THEN [@ EXCEPT !.pc = "done", !.result = Failure(op, layer.err, 0)]
                       ELSE IF DOMAIN layer.layer = {}
                       THEN [@ EXCEPT !.pc = "done",
                                      !.result = Failure(op, "ErrPathBroken", t)]
                       ELSE [@ EXCEPT !.t = t + 1,
                                      !.V = [V EXCEPT ![t + 1] = layer.layer]]]
    /\ UNCHANGED <<model, ret>>

\* the call g selects the terminus, walks back and returns
StepFinish(g) ==
    /\ calls[g].pc = "finish"
    /\ \E result \in Finish(calls[g].op,
                            [err |-> "nil", at |-> 0, V |-> TrellisOf(calls, g)],
                            IF calls[g].op = "EvalPath" THEN 0 ELSE NegInf) :
          calls' = [calls EXCEPT ![g] = [@ EXCEPT !.pc = "done", !.result = result]]
    /\ UNCHANGED <<model, ret>>

\* the weather model is built as in the test; once a call runs no builder
\* call is made; the calls are numbered in the order of their start
NextConcurrent ==
    \/ DOMAIN calls = {} /\ NextWeather
    \/ \E g \in 1..MaxGoroutines, op \in DecodeOps :
          g = Cardinality(DOMAIN calls) + 1 /\ Go(g, op)
    \/ \E g \in DOMAIN calls : StepForward(g)
    \/ \E g \in DOMAIN calls : StepFinish(g)

SpecConcurrent == Init /\ [][NextConcurrent]_vars

\* ------------------------- TestViterbiEvalPathLogProbabilities (GPS)

GpsStates ==
    <<"rp11", "rp12", "rp21", "rp22", "rp31", "rp32", "rp33", "rp41", "rp42">>
GpsObservations == <<"gps1", "gps2", "gps3", "gps4">>

\* the values of the test in thousandths, rounded: -5.341012069517231 is -5341
GpsStart == ("rp11" :> -5341) @@ ("rp12" :> -77783)

GpsEmission ==
    (<<"rp11", "gps1">> :> -5341) @@ (<<"rp12", "gps1">> :> -77783)
    @@ (<<"rp21", "gps2">> :> -5341) @@ (<<"rp22", "gps2">> :> -29488)
    @@ (<<"rp31", "gps3">> :> -5341) @@ (<<"rp32", "gps3">> :> -5341)
    @@ (<<"rp33", "gps3">> :> -29488)
    @@ (<<"rp41", "gps4">> :> -5341) @@ (<<"rp42", "gps4">> :> -77783)

GpsTransition ==
    (<<"rp11", "rp21">> :> -1283673) @@ (<<"rp11", "rp22">> :> -9129759)
    @@ (<<"rp12", "rp21">> :> -9129759) @@ (<<"rp12", "rp22">> :> -1283673)
    @@ (<<"rp21", "rp31">> :> 4647) @@ (<<"rp21", "rp32">> :> -2079898)
    @@ (<<"rp21", "rp33">> :> -6248988) @@ (<<"rp22", "rp31">> :> -6248988)
    @@ (<<"rp22", "rp32">> :> -4164443) @@ (<<"rp22", "rp33">> :> 4647)
    @@ (<<"rp31", "rp41">> :> -626503) @@ (<<"rp31", "rp42">> :> -3533294)
    @@ (<<"rp32", "rp41">> :> -626503) @@ (<<"rp32", "rp42">> :> -1448749)
    @@ (<<"rp33", "rp41">> :> -3533294) @@ (<<"rp33", "rp42">> :> -626503)

GpsModel ==
    Viterbi(GpsStates, GpsObservations, GpsStart, GpsEmission, GpsTransition)

\* the transitions out of the states of one observation are put before those
\* of the next one, as the test does
GpsLayer(s) == CHOOSE i \in 1..4 : <<s, GpsObservations[i]>> \in DOMAIN GpsEmission

\* the test adds the states, then the observations, then fills the start, the
\* emission and the transition table, and decodes; the decode is also run on
\* the model as built so far
NextGps ==
    \/ Setup /\ \E s \in Fresh(GpsStates, states) : AddState(s)
    \/ /\ Setup
       /\ states = GpsStates
       /\ \E obs \in Fresh(GpsObservations, observations) : AddObservation(obs)
    \/ /\ Setup
       /\ observations = GpsObservations
       /\ \E s \in DOMAIN GpsStart \ DOMAIN startProbabilities :
             PutStartProbability(s, GpsStart[s])
    \/ /\ Setup
       /\ startProbabilities = GpsStart
       /\ \E k \in DOMAIN GpsEmission \ DOMAIN emissionProbabilities :
             PutEmissionProbability(k[1], k[2], GpsEmission[k])
    \/ /\ Setup
       /\ emissionProbabilities = GpsEmission
       /\ \E k \in DOMAIN GpsTransition \ DOMAIN transitionProbabilities :
             /\ \A j \in DOMAIN GpsTransition \ DOMAIN transitionProbabilities :
                   GpsLayer(k[1]) <= GpsLayer(j[1])
             /\ PutTransitionProbability(k[1], k[2], GpsTransition[k])
    \/ EvalPathLogProbabilities

SpecGps == Init /\ [][NextGps]_vars

\* ------------------- a caller whose State values share an identity

\* CustomState{Name, id} and CustomObservation{Name, id} of the tests: a
\* struct value; "==" on two of them, and so the key of a map, compares the
\* dynamic type and every field
CustomState(name, id) == [Name |-> name, id |-> id]
CustomObservation(name, id) == [Name |-> name, id |-> id]

\* "func (ms CustomState) ID() int { return ms.id }"
ID(s) == s.id

\* the State values of this caller, in the order of their first use: two
\* values with the identity 1 and different names
IdStates == <<CustomState("p", 1), CustomState("q", 1)>>
IdObservations == <<CustomObservation("x", 1)>>

\* the model is built before it is decoded, from values of linear mode
NextIdentity ==
    \/ Setup /\ \E s \in Fresh(IdStates, states) : AddState(s)
    \/ /\ Setup
       /\ Len(observations) < MaxObs
       /\ \E obs \in Range(IdObservations) : AddObservation(obs)
    \/ /\ Setup
       /\ \E val \in LinearValues, s \in Range(states) :
             MayPut(startProbabilities, s, val) /\ PutStartProbability(s, val)
    \/ /\ Setup
       /\ \E val \in LinearValues, s \in Range(states), obs \in Range(observations) :
             /\ MayPut(emissionProbabilities, <<s, obs>>, val)
             /\ PutEmissionProbability(s, obs, val)
    \/ /\ Setup
       /\ \E val \in LinearValues, f \in Range(states), t \in Range(states) :
             /\ MayPut(transitionProbabilities, <<f, t>>, val)
             /\ PutTransitionProbability(f, t, val)
    \/ EvalPath

SpecIdentity == Init /\ [][NextIdentity]_vars

\* ------- a caller that stores a positive value among log-probabilities

\* log-probabilities -Inf and -1, and the positive value 1 (the GPS test
\* stores a positive transition among its log-probabilities)
PositiveLogValues == {NegInf, -1, 1}

\* the model is built before it is decoded, with up to MaxEdgeObs
\* observations of the same value and up to MaxEdgeEntries entries
NextPositiveLog ==
    \/ Setup /\ \E s \in Fresh(StateIds, states) : AddState(s)
    \/ /\ Setup
       /\ Len(observations) < MaxEdgeObs
       /\ \E obs \in Range(observations) \cup Fresh(EdgeObsIds, observations) :
             AddObservation(obs)
    \/ /\ Setup
       /\ \E val \in PositiveLogValues, s \in Range(states) :
             MayAdd(startProbabilities, s) /\ PutStartProbability(s, val)
    \/ /\ Setup
       /\ \E val \in PositiveLogValues, s \in Range(states), obs \in Range(observations) :
             /\ MayAdd(emissionProbabilities, <<s, obs>>)
             /\ PutEmissionProbability(s, obs, val)
    \/ /\ Setup
       /\ \E val \in PositiveLogValues, f \in Range(states), t \in Range(states) :
             /\ MayAdd(transitionProbabilities, <<f, t>>)
             /\ PutTransitionProbability(f, t, val)
    \/ EvalPath
    \/ EvalPathLogProbabilities

SpecPositiveLog == Init /\ [][NextPositiveLog]_vars

\* ------------- a caller that decodes a run of one repeated observation

\* up to MaxObs observations of the same value, up to MaxEntries entries on
\* one scale; the model is built before it is decoded
NextRepeated ==
    \/ Setup /\ \E s \in Fresh(StateIds, states) : AddState(s)
    \/ /\ Setup
       /\ Len(observations) < MaxObs
       /\ \E obs \in Range(observations) \cup Fresh(EdgeObsIds, observations) :
             AddObservation(obs)
    \/ /\ Setup
       /\ \E val \in Scale, s \in Range(states) :
             MayPut(startProbabilities, s, val) /\ PutStartProbability(s, val)
    \/ /\ Setup
       /\ \E val \in Scale, s \in Range(states), obs \in Range(observations) :
             /\ MayPut(emissionProbabilities, <<s, obs>>, val)
             /\ PutEmissionProbability(s, obs, val)
    \/ /\ Setup
       /\ \E val \in Scale, f \in Range(states), t \in Range(states) :
             /\ MayPut(transitionProbabilities, <<f, t>>, val)
             /\ PutTransitionProbability(f, t, val)
    \/ EvalPath
    \/ EvalPathLogProbabilities

SpecRepeated == Init /\ [][NextRepeated]_vars

\* ------------------------------------------- the decoding problem

\* the number of observations
T == Len(observations)

\* a call of the decode op has returned, with or without an error
Returned(op) == ret.op = op
Succeeded(op) == ret.op = op /\ ret.err = "nil"
Decoded == ret.op \in {"EvalPath", "EvalPathLogProbabilities"}

\* the sequences q0..q(T-1) of registered states
StateSequences(v) == [1..Len(v.observations) -> Range(v.states)]

\* start(q0), emission(q_t, obs_t) for every t and transition(q_(t-1), q_t)
\* for every t >= 1 are all defined
DefinedPath(v, q) ==
    /\ Len(v.observations) >= 1
    /\ DOMAIN q = 1..Len(v.observations)
    /\ q[1] \in DOMAIN v.startProbabilities
    /\ \A t \in 1..Len(v.observations) :
          <<q[t], v.observations[t]>> \in DOMAIN v.emissionProbabilities
    /\ \A t \in 2..Len(v.observations) :
          <<q[t - 1], q[t]>> \in DOMAIN v.transitionProbabilities

DefinedPaths(v) == {q \in StateSequences(v) : DefinedPath(v, q)}

\* the values along the first t steps of q
RECURSIVE ValuesAlong(_, _, _)
ValuesAlong(v, q, t) ==
    IF t = 1
    THEN <<v.startProbabilities[q[1]], v.emissionProbabilities[<<q[1], v.observations[1]>>]>>
    ELSE ValuesAlong(v, q, t - 1)
         \o <<v.transitionProbabilities[<<q[t - 1], q[t]>>],
              v.emissionProbabilities[<<q[t], v.observations[t]>>]>>

RECURSIVE Product(_)
Product(xs) == IF Len(xs) = 0 THEN 1 ELSE xs[1] * Product(Tail(xs))

RECURSIVE Sum(_)
Sum(xs) == IF Len(xs) = 0 THEN 0 ELSE xs[1] + Sum(Tail(xs))

\* start(q0)*emission(q0,obs_0)*PRODUCT over t>=1 of transition*emission
PathProduct(v, q) == Product(ValuesAlong(v, q, Len(v.observations)))

\* start(q0)+emission(q0,obs_0)+SUM over t>=1 of (transition+emission)
PathSum(v, q) == Sum(ValuesAlong(v, q, Len(v.observations)))

\* no value along q is negative infinity
FinitePath(v, q) == NegInf \notin Range(ValuesAlong(v, q, Len(v.observations)))

FinitePaths(v) == {q \in DefinedPaths(v) : FinitePath(v, q)}

\* ----------------------------------------------------------------- claims

\* C1: when EvalPath returns without error, the returned path is a sequence of
\* registered states whose start, emission and transition entries are all
\* defined, the returned probability is the product of those entries along it,
\* and no such sequence has a greater product.
C1_LinearMaximum ==
    Succeeded("EvalPath") =>
        /\ ret.Path \in DefinedPaths(self)
        /\ PathProduct(self, ret.Path) = ret.Probability
        /\ \A q \in DefinedPaths(self) : PathProduct(self, q) <= ret.Probability

\* EvalPath returned the better of two defined paths that end in the same
\* state and differ before it
C1_Witness ==
    /\ Succeeded("EvalPath")
    /\ T >= 2
    /\ \E q \in DefinedPaths(self) :
          /\ q[T] = ret.Path[T]
          /\ PathProduct(self, q) < ret.Probability

\* C2: when EvalPathLogProbabilities returns without error, the returned path is
\* a sequence of registered states whose entries are all defined and not
\* negative infinity, the returned probability is the sum of those entries along
\* it, and no such sequence has a greater sum.
C2_LogMaximum ==
    Succeeded("EvalPathLogProbabilities") =>
        /\ ret.Path \in FinitePaths(self)
        /\ PathSum(self, ret.Path) = ret.Probability
        /\ \A q \in FinitePaths(self) : PathSum(self, q) <= ret.Probability

\* EvalPathLogProbabilities returned the better of two defined paths that end
\* in the same state and differ before it
C2_Witness ==
    /\ Succeeded("EvalPathLogProbabilities")
    /\ T >= 2
    /\ \E q \in FinitePaths(self) :
          /\ q[T] = ret.Path[T]
          /\ PathSum(self, q) < ret.Probability

\* C3: a decode that returns without error returns a path with exactly as many
\* elements as there are observations.
C3_PathLength == (Decoded /\ ret.err = "nil") => Len(ret.Path) = T

\* EvalPathLogProbabilities returned a path of two states for two observations
C3_Witness ==
    /\ Succeeded("EvalPathLogProbabilities")
    /\ T = 2
    /\ Len(ret.Path) = 2

\* C4: the probability a decode returns is the score recomputed along the
\* returned path: the product of start, emissions and transitions in EvalPath,
\* their sum in EvalPathLogProbabilities.
C4_ProbabilityOfPath ==
    /\ Succeeded("EvalPath") =>
          DefinedPath(self, ret.Path) /\ ret.Probability = PathProduct(self, ret.Path)
    /\ Succeeded("EvalPathLogProbabilities") =>
          DefinedPath(self, ret.Path) /\ ret.Probability = PathSum(self, ret.Path)

\* EvalPath returned a path of two steps whose probability is below 1.0 at
\* every factor's scale, so every factor counts
C4_Witness ==
    /\ Succeeded("EvalPath")
    /\ T = 2
    /\ ret.Probability < One * One * One * One
    /\ ret.Probability > 0

\* C5: a returned path is made of registered states and of defined table
\* entries only: a start probability for its first element, an emission for
\* every element at its observation, a transition for every consecutive pair.
C5_PathDefined ==
    (Decoded /\ ret.err = "nil") =>
        /\ ret.Path \in StateSequences(self)
        /\ DefinedPath(self, ret.Path)

\* a decode returned a path although some registered state has no start
\* probability and some registered state has no emission for the last
\* observation
C5_Witness ==
    /\ Decoded /\ ret.err = "nil"
    /\ T >= 2
    /\ \E s \in Range(states) : s \notin DOMAIN startProbabilities
    /\ \E s \in Range(states) : <<s, observations[T]>> \notin DOMAIN emissionProbabilities

\* C6: a decode run again on the model it has just been run on (no builder
\* call in between) returns the identical path and probability.
C6_Determinism ==
    [][(Decoded /\ ret'.op = ret.op) => ret' = ret]_vars

\* C9: a decode of a model with no observation fails with NoObservations, also
\* when the model has no state; a decode of a model with observations and no
\* state fails with NoStates.
C9_EmptyModel ==
    Decoded =>
        /\ T = 0 => ret = Failure(ret.op, "ErrNoObservations", 0)
        /\ (T > 0 /\ Len(states) = 0) => ret = Failure(ret.op, "ErrNoStates", 0)

\* EvalPath returned for a model with neither observations nor states
C9_Witness ==
    /\ Returned("EvalPath")
    /\ T = 0
    /\ Len(states) = 0
    /\ ret.err = "ErrNoObservations"

\* no registered state has both a start probability and an emission for the
\* first observation
NoInitialState ==
    \A s \in Range(states) :
        ~(s \in DOMAIN startProbabilities
          /\ <<s, observations[1]>> \in DOMAIN emissionProbabilities)

\* the start probabilities of the registered states are in the range of the
\* decode that returned
StartInRange ==
    \A s \in Range(states) \cap DOMAIN startProbabilities :
        IF ret.op = "EvalPath" THEN ~InvalidLinear(startProbabilities[s])
        ELSE ~InvalidLog(startProbabilities[s])

\* C10: for a model with states and observations in which no registered state
\* has both a start probability and an emission for the first observation, a
\* decode fails with NoValidInitStates, unless a start probability is out of
\* range, and then with InvalidProbability.
C10_NoValidInitStates ==
    (Decoded /\ T > 0 /\ Len(states) > 0 /\ NoInitialState) =>
        /\ StartInRange => ret = Failure(ret.op, "ErrNoValidInitStates", 0)
        /\ ~StartInRange => ret = Failure(ret.op, "ErrInvalidProbability", 0)

\* EvalPathLogProbabilities failed with NoValidInitStates on a model where
\* every state has a start probability and none an emission for the first
\* observation
C10_Witness ==
    /\ Returned("EvalPathLogProbabilities")
    /\ ret.err = "ErrNoValidInitStates"
    /\ T > 0
    /\ Len(states) = 2
    /\ \A s \in Range(states) : s \in DOMAIN startProbabilities
    /\ \A s \in Range(states) : <<s, observations[1]>> \notin DOMAIN emissionProbabilities

\* C7: on the weather model of the test (Healthy and Fever registered in that
\* order, observations normal, cold, dizzy) EvalPath returns the path
\* Healthy, Healthy, Fever with the probability 0.01512, which is
\* 0.6*0.5*0.7*0.4*0.3*0.6 (six factors in tenths).
C7_Weather ==
    (Returned("EvalPath") /\ self = WeatherModel) =>
        /\ ret.err = "nil"
        /\ ret.Path = <<"Healthy", "Healthy", "Fever">>
        /\ Len(ret.Path) = 3
        /\ ret.Probability = 6 * 5 * 7 * 4 * 3 * 6
        /\ ret.Probability * 100000 = 1512 * (One * One * One * One * One * One)

\* EvalPath returned a path for the complete weather model
C7_Witness ==
    /\ Succeeded("EvalPath")
    /\ self = WeatherModel
    /\ ret.Path[3] = "Fever"

\* C8: on the GPS model of the test, with the transition rp21->rp31 set to the
\* positive value +4.646573599499615, EvalPathLogProbabilities returns the path
\* rp11, rp21, rp31, rp41 and the probability -1932.2344194557202, the sum of
\* the start, emissions and transitions along it.
C8_GpsPositiveTransition ==
    (Returned("EvalPathLogProbabilities") /\ self = GpsModel) =>
        /\ ret.err = "nil"
        /\ ret.Path = <<"rp11", "rp21", "rp31", "rp41">>
        /\ ret.Probability = -1932234
        /\ ret.Probability = PathSum(self, ret.Path)

\* ------------------------------------------- the trellis of the problem

\* a value that can be part of a path: in log mode negative infinity is not
Usable(op, x) == op = "EvalPath" \/ x # NegInf

\* a value outside the range of the mode: [0, 1] in linear mode, (-Inf, 0]
\* and -Inf in log mode
OutOfRange(op, x) == IF op = "EvalPath" THEN x < 0 \/ x > One ELSE x > 0

\* the states some path of usable entries reaches at time step t (t = 0 is
\* the first observation)
RECURSIVE Reachable(_, _, _)
Reachable(v, op, t) ==
    IF t = 0
    THEN {s \in Range(v.states) :
            /\ s \in DOMAIN v.startProbabilities
            /\ <<s, v.observations[1]>> \in DOMAIN v.emissionProbabilities
            /\ Usable(op, v.startProbabilities[s])
            /\ Usable(op, v.emissionProbabilities[<<s, v.observations[1]>>])}
    ELSE {s \in Range(v.states) :
            /\ <<s, v.observations[t + 1]>> \in DOMAIN v.emissionProbabilities
            /\ Usable(op, v.emissionProbabilities[<<s, v.observations[t + 1]>>])
            /\ \E r \in Reachable(v, op, t - 1) :
                  /\ <<r, s>> \in DOMAIN v.transitionProbabilities
                  /\ Usable(op, v.transitionProbabilities[<<r, s>>])}

\* the time steps t >= 1 at which no state is reachable
BrokenSteps(v, op) ==
    {t \in 1..(Len(v.observations) - 1) : Reachable(v, op, t) = {}}

\* every time step before t has a reachable state
Alive(v, op, t) == \A k \in 0..(t - 1) : Reachable(v, op, k) # {}

Least(S) == CHOOSE t \in S : \A u \in S : t <= u

\* the stored values a decode has to read: the start of every registered
\* state, the first emission of every state that has a start, and at every
\* step t >= 1 that the path reaches the emission of every state and the
\* transitions into every state whose emission is usable
Consulted(v, op) ==
    {v.startProbabilities[s] : s \in Range(v.states) \cap DOMAIN v.startProbabilities}
    \cup {v.emissionProbabilities[<<s, v.observations[1]>>] :
            s \in {x \in Range(v.states) \cap DOMAIN v.startProbabilities :
                     <<x, v.observations[1]>> \in DOMAIN v.emissionProbabilities}}
    \cup UNION {
           {v.emissionProbabilities[<<s, v.observations[t + 1]>>] :
              s \in {x \in Range(v.states) :
                       <<x, v.observations[t + 1]>> \in DOMAIN v.emissionProbabilities}}
           : t \in {u \in 1..(Len(v.observations) - 1) : Alive(v, op, u)}}
    \cup UNION {
           {v.transitionProbabilities[k] :
              k \in {j \in Range(v.states) \X Range(v.states) :
                       /\ j \in DOMAIN v.transitionProbabilities
                       /\ <<j[2], v.observations[t + 1]>> \in DOMAIN v.emissionProbabilities
                       /\ Usable(op, v.emissionProbabilities[<<j[2], v.observations[t + 1]>>])}}
           : t \in {u \in 1..(Len(v.observations) - 1) : Alive(v, op, u)}}

ConsultedInRange(v, op) == \A x \in Consulted(v, op) : ~OutOfRange(op, x)

\* C11: for a model with at least two observations whose first time step has
\* a reachable state and whose consulted values are all in range, a decode
\* fails with PathBroken exactly when some later time step has no reachable
\* state, and the error carries the first such step.
C11_PathBroken ==
    (Decoded /\ T >= 2 /\ Len(states) > 0 /\ ConsultedInRange(self, ret.op)
       /\ Reachable(self, ret.op, 0) # {}) =>
        /\ BrokenSteps(self, ret.op) # {} =>
              ret = Failure(ret.op, "ErrPathBroken", Least(BrokenSteps(self, ret.op)))
        /\ BrokenSteps(self, ret.op) = {} => ret.err = "nil"

\* EvalPath failed with PathBroken at the second of three observations, the
\* third one having no reachable state either
C11_Witness ==
    /\ Returned("EvalPath")
    /\ T = 3
    /\ ret.err = "ErrPathBroken"
    /\ ret.at = 1
    /\ BrokenSteps(self, "EvalPath") = {1, 2}

C14_EveryStoredValue ==
    (Decoded /\ T >= 1 /\ Len(states) > 0 /\ \E x \in Stored : OutOfRange(ret.op, x)) =>
        ret.err = "ErrInvalidProbability"

\* the errors of a decode
DecodeErrors ==
    {"ErrNoObservations", "ErrNoStates", "ErrInvalidProbability",
     "ErrNoValidInitStates", "ErrPathBroken", "ErrNoValidPath", "ErrInternal"}

\* C15: a decode that returns an error returns the zero ViterbiPath
\* (Probability 0, empty Path), and a decode that returns no error returns a
\* complete path: one registered state for every observation of a model that
\* has at least one.
C15_ErrorsZeroValue ==
    Decoded =>
        /\ ret.err # "nil" =>
              ret.err \in DecodeErrors /\ ret.Probability = 0 /\ ret.Path = <<>>
        /\ ret.err = "nil" =>
              T >= 1 /\ Len(ret.Path) = T /\ ret.Path \in StateSequences(self)

\* EvalPath failed with PathBroken (the scores of the first time step were
\* computed) and returned the zero ViterbiPath
C15_Witness ==
    /\ Returned("EvalPath")
    /\ ret.err = "ErrPathBroken"
    /\ Reachable(self, "EvalPath", 0) # {}
    /\ ret.Probability = 0
    /\ ret.Path = <<>>

\* C16: in EvalPathLogProbabilities a stored negative infinity is never the
\* reason of InvalidProbability (a model whose values are all <= 0 is not
\* rejected); every layer of the trellis holds exactly the states that a path
\* of entries other than negative infinity reaches, with a score above negative
\* infinity; and a returned path has no entry of negative infinity.
C16_NegativeInfinity ==
    (Returned("EvalPathLogProbabilities") /\ T >= 1 /\ Len(states) > 0) =>
        /\ (\A x \in Stored : x <= 0) => ret.err # "ErrInvalidProbability"
        /\ LET V == TrellisLog(self).V IN
           \A k \in 1..Len(V) :
              /\ DOMAIN V[k] = Reachable(self, "EvalPathLogProbabilities", k - 1)
              /\ \A s \in DOMAIN V[k] : V[k][s].prob > NegInf
        /\ ret.err = "nil" =>
              /\ ret.Probability > NegInf
              /\ FinitePath(self, ret.Path)
              /\ ret.Path[1] \in Reachable(self, "EvalPathLogProbabilities", 0)

\* EvalPathLogProbabilities returned a path that starts in a state of finite
\* score although another state has a start probability of negative infinity
\* and an emission for the first observation
C16_Witness ==
    /\ Succeeded("EvalPathLogProbabilities")
    /\ \E s \in Range(states) \cap DOMAIN startProbabilities :
          /\ startProbabilities[s] = NegInf
          /\ <<s, observations[1]>> \in DOMAIN emissionProbabilities
          /\ ret.Path[1] # s

\* C17: a step in which a decode returns leaves the state list, the
\* observation list and the three tables as they were.
C17_ModelUnchanged ==
    [][ret'.op \in {"EvalPath", "EvalPathLogProbabilities"} => model' = model]_vars

\* EvalPath returned on a model that has states, observations and entries in
\* every table, and a registered state without a start probability
C17_Witness ==
    /\ Returned("EvalPath")
    /\ T >= 1
    /\ DOMAIN startProbabilities # {}
    /\ DOMAIN emissionProbabilities # {}
    /\ DOMAIN transitionProbabilities # {}
    /\ \E s \in Range(states) : s \notin DOMAIN startProbabilities

\* the table next holds val for the key k and, for every other key of the
\* table m, the value m holds
Replaced(m, next, k, val) ==
    /\ DOMAIN next = DOMAIN m \cup {k}
    /\ next[k] = val
    /\ \A j \in DOMAIN m \ {k} : next[j] = m[j]

\* C20: every call of PutStartProbability, PutEmissionProbability and
\* PutTransitionProbability reports no error and leaves its table with the
\* value of the call for its key, also when the key had another value, and
\* with the other entries as they were; and a decode that returns a path
\* returns the product of the values the tables hold at that decode.
C20_LastWriteWins ==
    [][/\ \A s \in Range(states), val \in LinearValues :
             PutStartProbability(s, val) =>
                 /\ Replaced(startProbabilities, startProbabilities', s, val)
                 /\ ret'.err = "nil"
       /\ \A s \in Range(states), obs \in Range(observations), val \in LinearValues :
             PutEmissionProbability(s, obs, val) =>
                 /\ Replaced(emissionProbabilities, emissionProbabilities', <<s, obs>>, val)
                 /\ ret'.err = "nil"
       /\ \A f \in Range(states), t \in Range(states), val \in LinearValues :
             PutTransitionProbability(f, t, val) =>
                 /\ Replaced(transitionProbabilities, transitionProbabilities', <<f, t>>, val)
                 /\ ret'.err = "nil"
       /\ (ret'.op = "EvalPath" /\ ret'.err = "nil") =>
             /\ DefinedPath(self', ret'.Path)
             /\ ret'.Probability = PathProduct(self', ret'.Path)
      ]_vars

\* EvalPath returned the product of the revised values 1.0 of the start
\* probability and of the emission, which were 0.5 when first put
C20_Witness ==
    /\ Succeeded("EvalPath")
    /\ T = 1
    /\ startProbabilities[ret.Path[1]] = One
    /\ emissionProbabilities[<<ret.Path[1], observations[1]>>] = One
    /\ ret.Probability = One * One

\* C19 as stated: on a Viterbi value declared as a zero value no call of
\* AddState, AddObservation, PutStartProbability, PutEmissionProbability or
\* PutTransitionProbability fails (the model is then built and decoded as one
\* made by New is).
C19_ZeroValue == nilMaps => ret.err # PanicNilMap

\* what the decode op returns when it is the only call that runs
Alone(op) ==
    IF op = "EvalPath" THEN EvalPathOutcomes(self)
    ELSE EvalPathLogProbabilitiesOutcomes(self)

\* C18: every decode call that has returned, whatever the other calls on the
\* same model did in between its steps, has returned what the same call returns
\* when it runs alone on that model.
C18_ConcurrentDecodes ==
    \A g \in DOMAIN calls :
        calls[g].pc = "done" => calls[g].result \in Alone(calls[g].op)

\* the second call, EvalPath, has returned the path of the complete weather
\* model while the first call, started before it, is still in its loop
C18_Witness ==
    /\ DOMAIN calls = {1, 2}
    /\ self = WeatherModel
    /\ calls[1].pc = "forward"
    /\ calls[2].pc = "done"
    /\ calls[2].op = "EvalPath"
    /\ calls[2].result.err = "nil"
    /\ Len(calls[2].result.Path) = 3

\* ------------------------------------------ the layers of the trellis

\* the trellis a decode op builds for the model v, as far as it gets
Trellis(v, op) == IF op = "EvalPath" THEN TrellisLinear(v) ELSE TrellisLog(v)

\* the registered states with a usable start probability and a usable
\* emission for the first observation
FirstMembers(v, op) ==
    {s \in Range(v.states) :
        /\ s \in DOMAIN v.startProbabilities
        /\ <<s, v.observations[1]>> \in DOMAIN v.emissionProbabilities
        /\ Usable(op, v.startProbabilities[s])
        /\ Usable(op, v.emissionProbabilities[<<s, v.observations[1]>>])}

\* the registered states with a usable emission at time step t (0-based,
\* t >= 1) and a usable transition from some state of the layer prev
NextMembers(v, op, t, prev) ==
    {s \in Range(v.states) :
        /\ <<s, v.observations[t + 1]>> \in DOMAIN v.emissionProbabilities
        /\ Usable(op, v.emissionProbabilities[<<s, v.observations[t + 1]>>])
        /\ \E r \in DOMAIN prev :
              /\ <<r, s>> \in DOMAIN v.transitionProbabilities
              /\ Usable(op, v.transitionProbabilities[<<r, s>>])}

\* C21: in both modes layer 0 of the trellis holds exactly the registered
\* states with a defined start probability and a defined emission for the
\* first observation (in log mode both other than negative infinity), and
\* layer t >= 1 holds exactly the registered states with a defined emission
\* at t and a defined transition from some state of layer t-1 (in log mode
\* both other than negative infinity); a decode fails with NoValidInitStates
\* or PathBroken when that set is empty.
C21_TrellisMembership ==
    (Decoded /\ T >= 1 /\ Len(states) > 0 /\ ret.err # "ErrInvalidProbability") =>
        LET V == Trellis(self, ret.op).V IN
        /\ ret.err = "ErrNoValidInitStates" <=> FirstMembers(self, ret.op) = {}
        /\ Len(V) >= 1 => DOMAIN V[1] = FirstMembers(self, ret.op)
        /\ \A k \in 2..Len(V) : DOMAIN V[k] = NextMembers(self, ret.op, k - 1, V[k - 1])
        /\ ret.err = "ErrPathBroken" =>
              /\ Len(V) = ret.at
              /\ NextMembers(self, ret.op, ret.at, V[ret.at]) = {}
        /\ ret.err = "nil" => Len(V) = T

\* EvalPath returned a path of two steps; a registered state with an
\* emission for the second observation is not in layer 1, no state of layer
\* 0 having a transition to it
C21_Witness ==
    /\ Succeeded("EvalPath")
    /\ T = 2
    /\ \E s \in Range(states) :
          /\ <<s, observations[2]>> \in DOMAIN emissionProbabilities
          /\ s \notin DOMAIN TrellisLinear(self).V[2]
    /\ DOMAIN TrellisLinear(self).V[2] # {}

\* the score of two factors in the arithmetic of the decode op: the product
\* in EvalPath, the sum in EvalPathLogProbabilities
Combine(op, x, y) ==
    IF op = "EvalPath" THEN x * y
    ELSE IF x = NegInf \/ y = NegInf THEN NegInf ELSE x + y

Greatest(S) == CHOOSE m \in S : \A x \in S : x <= m

\* the states of the layer prev that have a defined transition to s
Candidates(v, prev, s) ==
    {r \in DOMAIN prev : <<r, s>> \in DOMAIN v.transitionProbabilities}

\* the score of reaching s through the state r of the layer prev
Through(v, op, prev, r, s) ==
    Combine(op, v.transitionProbabilities[<<r, s>>], prev[r].prob)

\* the greatest score of reaching s from the layer prev
BestInto(v, op, prev, s) ==
    Greatest({Through(v, op, prev, r, s) : r \in Candidates(v, prev, s)})

\* the state registered first (by an AddState call) among those of S
Earliest(v, S) ==
    v.states[Least({i \in 1..Len(v.states) : v.states[i] \in S})]

\* C22: for every t >= 1 and every state s of layer t the stored score is
\* the greatest, over the states r of layer t-1 that have a defined
\* transition to s, of score(t-1, r) combined with transition(r, s), combined
\* with emission(s, obs_t); and the stored predecessor is the state
\* registered first among the r that attain that greatest score.
C22_Recurrence ==
    Decoded =>
        LET V == Trellis(self, ret.op).V IN
        \A k \in 2..Len(V) : \A s \in DOMAIN V[k] :
            LET candidates == Candidates(self, V[k - 1], s)
                best == BestInto(self, ret.op, V[k - 1], s)
            IN  /\ candidates # {}
                /\ V[k][s].prob =
                      Combine(ret.op, best, emissionProbabilities[<<s, observations[k]>>])
                /\ V[k][s].prev =
                      Earliest(self, {r \in candidates :
                                        Through(self, ret.op, V[k - 1], r, s) = best})

\* EvalPath returned a path of two steps that ends in a state which two
\* states of layer 0 reach with the same greatest score
C22_Witness ==
    /\ Succeeded("EvalPath")
    /\ T = 2
    /\ LET V == TrellisLinear(self).V
           s == ret.Path[2]
       IN  /\ Cardinality(Candidates(self, V[1], s)) = 2
           /\ \A r \in Candidates(self, V[1], s) :
                 Through(self, "EvalPath", V[1], r, s)
                    = BestInto(self, "EvalPath", V[1], s)
           /\ ret.Path[1] = states[1]

\* the states of the layer last whose score is the greatest of the layer
Maximal(last) ==
    {s \in DOMAIN last : \A r \in DOMAIN last : last[r].prob <= last[s].prob}

\* C23 as stated: when several states of the final layer share the greatest
\* final score, the path a decode returns ends in the one of them that was
\* registered first.
C23_TerminusFirst ==
    (Decoded /\ ret.err = "nil") =>
        LET V == Trellis(self, ret.op).V IN
        ret.Path[T] = Earliest(self, Maximal(V[Len(V)]))

\* C24: for every t >= 1 the predecessor recorded for a state of layer t
\* is a state of layer t-1 (and the one recorded in layer 0 is the nil
\* State), so the backward walk finds an entry at every time step: no decode
\* returns the internal error "backtracking failed", and every element of a
\* returned path is in the layer of its time step and is the predecessor
\* recorded for the element after it.
C24_BacktrackNeverFails ==
    Decoded =>
        LET V == Trellis(self, ret.op).V IN
        /\ ret.err # "ErrInternal"
        /\ \A k \in 2..Len(V) : \A s \in DOMAIN V[k] : V[k][s].prev \in DOMAIN V[k - 1]
        /\ ret.err = "nil" =>
              /\ \A k \in 1..T : ret.Path[k] \in DOMAIN V[k]
              /\ \A k \in 2..T : ret.Path[k - 1] = V[k][ret.Path[k]].prev

\* EvalPath walked back over three time steps to a terminus that also has a
\* defined transition from a registered state absent from the layer before
C24_Witness ==
    /\ Succeeded("EvalPath")
    /\ T = 3
    /\ Len(ret.Path) = 3
    /\ LET V == TrellisLinear(self).V IN
       \E r \in Range(states) \ DOMAIN V[2] :
           <<r, ret.Path[3]>> \in DOMAIN transitionProbabilities

\* ------------------------------------------- the two modes compared

RECURSIVE Power(_, _)
Power(b, n) == IF n = 0 THEN 1 ELSE b * Power(b, n - 1)

\* the logarithm to the base 2 of the probability x/unit, for x/unit a
\* power of 1/2: 0 for 1.0, -1 for 0.5, -2 for 0.25
RECURSIVE Log2(_, _)
Log2(x, unit) == IF x >= unit THEN 0 ELSE Log2(2 * x, unit) - 1

\* the table m with every value replaced by its logarithm
LogTable(m) == [k \in DOMAIN m |-> Log2(m[k], One)]

\* the model v with the same keys and every value replaced by its logarithm
LogModel(v) ==
    Viterbi(v.states, v.observations, LogTable(v.startProbabilities),
            LogTable(v.emissionProbabilities), LogTable(v.transitionProbabilities))

\* C25: for a model whose defined values are all above 0 and at most 1,
\* EvalPath on it and EvalPathLogProbabilities on the model with the same
\* keys and the logarithm of every value end the same way (without error,
\* or with the same error at the same step), build layers with the same
\* states, can return the same paths, and the probability of log mode is the
\* logarithm of the probability of linear mode.
C25_ModesAgree ==
    (Returned("EvalPath") /\ \A x \in Stored : x > 0 /\ x <= One) =>
        LET lin == EvalPathOutcomes(self)
            log == EvalPathLogProbabilitiesOutcomes(LogModel(self))
            Vlin == TrellisLinear(self).V
            Vlog == TrellisLog(LogModel(self)).V
        IN  /\ {<<r.err, r.at>> : r \in lin} = {<<r.err, r.at>> : r \in log}
            /\ {r.Path : r \in lin} = {r.Path : r \in log}
            /\ Len(Vlin) = Len(Vlog)
            /\ \A k \in 1..Len(Vlin) : DOMAIN Vlin[k] = DOMAIN Vlog[k]
            /\ \A r \in lin, q \in log :
                  r.err = "nil" => q.Probability = Log2(r.Probability, Power(One, 2 * T))

\* EvalPath returned a path of two steps with a probability of 0.25 or less
\* on a model that stores both 0.5 and 1.0, and another path has a lower
\* probability
C25_Witness ==
    /\ Succeeded("EvalPath")
    /\ T = 2
    /\ Stored = {5, One}
    /\ Log2(ret.Probability, Power(One, 4)) <= -2
    /\ \E q \in DefinedPaths(self) : PathProduct(self, q) < ret.Probability

\* ---------------------------------------------- the keys of the tables

\* the State values of the caller that have the same identity as s
SameId(s) == {u \in Range(IdStates) : ID(u) = ID(s)}

\* C26 as stated: two State values with the same ID() are one key of the
\* tables: after a value is put for one of them, the same value is read
\* through every State value of that identity.
C26_KeysAreIds ==
    [][/\ \A s \in Range(states), val \in LinearValues :
             PutStartProbability(s, val) =>
                 \A u \in SameId(s) :
                     Lookup(startProbabilities', u) = [val |-> val, ok |-> TRUE]
       /\ \A s \in Range(states), obs \in Range(observations), val \in LinearValues :
             PutEmissionProbability(s, obs, val) =>
                 \A u \in SameId(s) :
                     Lookup(emissionProbabilities', <<u, obs>>) = [val |-> val, ok |-> TRUE]
       /\ \A f \in Range(states), t \in Range(states), val \in LinearValues :
             PutTransitionProbability(f, t, val) =>
                 \A u \in SameId(f), w \in SameId(t) :
                     Lookup(transitionProbabilities', <<u, w>>) = [val |-> val, ok |-> TRUE]
      ]_vars

\* C26 as amended: the keys of the tables are the State and Observation
\* values themselves, compared field by field: a put for a State value sets
\* the entry of that value and leaves the entry of every other value as it
\* was, the values with the same ID() and another name included; and a decode
\* reads for each registered value the entries put for that value: the layers
\* hold the values that have their own entries, and the returned probability
\* is the product of the entries of the values on the returned path.
C26_KeysAreValues ==
    [][/\ \A s \in Range(states), val \in LinearValues :
             PutStartProbability(s, val) =>
                 Replaced(startProbabilities, startProbabilities', s, val)
       /\ \A s \in Range(states), obs \in Range(observations), val \in LinearValues :
             PutEmissionProbability(s, obs, val) =>
                 Replaced(emissionProbabilities, emissionProbabilities', <<s, obs>>, val)
       /\ \A f \in Range(states), t \in Range(states), val \in LinearValues :
             PutTransitionProbability(f, t, val) =>
                 Replaced(transitionProbabilities, transitionProbabilities', <<f, t>>, val)
       /\ (ret'.op = "EvalPath" /\ T >= 1 /\ Len(states) > 0) =>
             LET V == TrellisLinear(self').V IN
             /\ Len(V) >= 1 => DOMAIN V[1] = FirstMembers(self', "EvalPath")
             /\ \A k \in 2..Len(V) :
                   DOMAIN V[k] = NextMembers(self', "EvalPath", k - 1, V[k - 1])
             /\ ret'.err = "nil" =>
                   /\ DefinedPath(self', ret'.Path)
                   /\ ret'.Probability = PathProduct(self', ret'.Path)
      ]_vars

\* EvalPath returned a path on a model with two registered State values of
\* the same ID() that have different start probabilities, and a third entry
\* (an emission) that only one of them has
C26_Witness ==
    /\ Succeeded("EvalPath")
    /\ \E s \in Range(states) : \E u \in SameId(s) \cap Range(states) :
          /\ u # s
          /\ s \in DOMAIN startProbabilities
          /\ u \in DOMAIN startProbabilities
          /\ startProbabilities[s] # startProbabilities[u]
          /\ <<s, observations[1]>> \in DOMAIN emissionProbabilities
          /\ <<u, observations[1]>> \notin DOMAIN emissionProbabilities
          /\ ret.Path[1] = s

\* ------------------------------------------- success and defined paths

\* the sequences of registered states a decode op can return for v: every
\* entry along them is defined and, in log mode, none is negative infinity
UsablePaths(v, op) == IF op = "EvalPath" THEN DefinedPaths(v) ELSE FinitePaths(v)

\* every stored value is in the range of the mode of the decode op
StoredInRange(op) == \A x \in Stored : ~OutOfRange(op, x)

\* C27: for a model with at least one state and one observation whose
\* stored values are all in the range of the mode, a decode returns without
\* error exactly when some sequence of registered states has a defined start
\* for its first element, a defined emission at every time step and a
\* defined transition between consecutive elements (in log mode none of them
\* negative infinity); otherwise it fails with NoValidInitStates or
\* PathBroken.
C27_SuccessIffPath ==
    (Decoded /\ T >= 1 /\ Len(states) > 0 /\ StoredInRange(ret.op)) =>
        /\ ret.err = "nil" <=> UsablePaths(self, ret.op) # {}
        /\ ret.err # "nil" => ret.err \in {"ErrNoValidInitStates", "ErrPathBroken"}

\* EvalPathLogProbabilities returned a path although another sequence of
\* states with all its entries defined runs through negative infinity
C27_Witness ==
    /\ Succeeded("EvalPathLogProbabilities")
    /\ StoredInRange("EvalPathLogProbabilities")
    /\ DefinedPaths(self) \ FinitePaths(self) # {}

\* ------------------------------------------------- the value 0

\* C28: in EvalPath a value of exactly 0 does not take a state out of the
\* trellis: a state whose start or first emission is 0 is in layer 0 with
\* the score 0, a state reached only through transitions of 0 is in its
\* layer, and a model with its values in range that has a defined path
\* returns a complete path without error, with the probability 0 when every
\* defined path has the product 0; in EvalPathLogProbabilities a model whose
\* defined paths all run through negative infinity fails with
\* NoValidInitStates or PathBroken.
C28_ZeroKeepsState ==
    /\ (Returned("EvalPath") /\ T >= 1 /\ Len(states) > 0 /\ StoredInRange("EvalPath")) =>
          LET V == TrellisLinear(self).V IN
          /\ \A s \in Range(states) :
                (s \in DOMAIN startProbabilities
                 /\ <<s, observations[1]>> \in DOMAIN emissionProbabilities) =>
                    /\ s \in DOMAIN V[1]
                    /\ V[1][s].prob = startProbabilities[s]
                                      * emissionProbabilities[<<s, observations[1]>>]
          /\ \A k \in 2..Len(V) : \A s \in Range(states), r \in DOMAIN V[k - 1] :
                (<<s, observations[k]>> \in DOMAIN emissionProbabilities
                 /\ <<r, s>> \in DOMAIN transitionProbabilities) => s \in DOMAIN V[k]
          /\ DefinedPaths(self) # {} =>
                /\ ret.err = "nil"
                /\ Len(ret.Path) = T
                /\ (\A q \in DefinedPaths(self) : PathProduct(self, q) = 0) =>
                      ret.Probability = 0
    /\ (Returned("EvalPathLogProbabilities") /\ T >= 1 /\ Len(states) > 0
          /\ StoredInRange("EvalPathLogProbabilities") /\ FinitePaths(self) = {}) =>
          ret.err \in {"ErrNoValidInitStates", "ErrPathBroken"}

\* EvalPath returned a path of two steps with the probability 0: its first
\* state has the start probability 0 and its transition is 0
C28_Witness ==
    /\ Succeeded("EvalPath")
    /\ T = 2
    /\ Len(ret.Path) = 2
    /\ ret.Probability = 0
    /\ startProbabilities[ret.Path[1]] = 0
    /\ transitionProbabilities[<<ret.Path[1], ret.Path[2]>>] = 0

\* ------------------------------------- the order of the range checks

\* some registered state has a start probability out of the range of op
StartOutOfRange(v, op) ==
    \E s \in Range(v.states) \cap DOMAIN v.startProbabilities :
        OutOfRange(op, v.startProbabilities[s])

\* at time step t (0-based, t >= 1) some transition r->s between registered
\* states is out of the range of op and s has an emission for observation t
TransitionOutOfRange(v, op, t) ==
    \E r \in Range(v.states), s \in Range(v.states) :
        /\ <<r, s>> \in DOMAIN v.transitionProbabilities
        /\ OutOfRange(op, v.transitionProbabilities[<<r, s>>])
        /\ <<s, v.observations[t + 1]>> \in DOMAIN v.emissionProbabilities

UsableTransitionOutOfRange(v, op, t) ==
    \E r \in Range(v.states), s \in Range(v.states) :
        /\ <<r, s>> \in DOMAIN v.transitionProbabilities
        /\ OutOfRange(op, v.transitionProbabilities[<<r, s>>])
        /\ <<s, v.observations[t + 1]>> \in DOMAIN v.emissionProbabilities
        /\ Usable(op, v.emissionProbabilities[<<s, v.observations[t + 1]>>])

Orders(seq) ==
    {[i \in 1..Len(seq) |-> seq[f[i]]] :
        f \in {g \in [1..Len(seq) -> 1..Len(seq)] :
                 \A i, j \in 1..Len(seq) : g[i] = g[j] => i = j}}

\* the model v with its states added in the order st
Registered(v, st) ==
    Viterbi(st, v.observations, v.startProbabilities, v.emissionProbabilities,
            v.transitionProbabilities)

\* everything the decode op can return for the model v
Outcomes(v, op) ==
    IF op = "EvalPath" THEN EvalPathOutcomes(v) ELSE EvalPathLogProbabilitiesOutcomes(v)

\* no two predecessor candidates of a state at a time step have the same
\* score, and no two states of the final layer have
NoTies(v, op) ==
    LET tr == Trellis(v, op) IN
    /\ \A k \in 2..Len(tr.V) : \A s \in Range(v.states) :
          \A r1, r2 \in Candidates(v, tr.V[k - 1], s) :
              r1 # r2 => Through(v, op, tr.V[k - 1], r1, s) # Through(v, op, tr.V[k - 1], r2, s)
    /\ (tr.err = "nil" /\ Len(tr.V) >= 1) =>
          \A s1, s2 \in DOMAIN tr.V[Len(tr.V)] :
              s1 # s2 => tr.V[Len(tr.V)][s1].prob # tr.V[Len(tr.V)][s2].prob

\* C30: for a model in which no two predecessor candidates of the same
\* step and state and no two states of the final layer have equal scores, a
\* decode returns the same path and probability (or the same error) for
\* every order in which the same states were added with AddState.
C30_OrderIndependence ==
    (Decoded /\ NoTies(self, ret.op)) =>
        \A st \in Orders(states) : Outcomes(Registered(self, st), ret.op) = {ret}

\* EvalPath returned a path of two steps whose last state has two
\* predecessor candidates of different scores, the better one being the
\* state that was added last
C30_Witness ==
    /\ Succeeded("EvalPath")
    /\ T = 2
    /\ Len(states) = 2
    /\ NoTies(self, "EvalPath")
    /\ Cardinality(Candidates(self, TrellisLinear(self).V[1], ret.Path[2])) = 2
    /\ ret.Path[1] = states[2]

====
